---- MODULE Spec2Model ----
(***************************************************************************)
(* Model of sync-email-templates.py: the template-literal locator          *)
(* find_function_and_template, run one statement group at a time over a    *)
(* source text held as a sequence of characters, and the batch loop of     *)
(* main with update_code_gs.  Offsets are Python's: 0-based, half-open.     *)
(***************************************************************************)
EXTENDS Integers, Sequences, FiniteSets, TLC

VARIABLES code, function_name, html_var, pc, func_start, func_end,
          template_start, pos, depth, in_expression, expr_depth, result,
          code_gs, templates, previews, dry_run, writable, phase, idx,
          updated_count, skipped_count, error_count, n_writes

locVars == <<code, function_name, html_var, pc, func_start, func_end,
             template_start, pos, depth, in_expression, expr_depth, result>>
batchVars == <<code_gs, templates, previews, dry_run, writable, phase, idx,
               updated_count, skipped_count, error_count, n_writes>>
vars == <<locVars, batchVars>>

(***************************************************************************)
(* Characters and Python string primitives.                                *)
(***************************************************************************)
NL == "\n"
BS == "\\"
\* the backtick character (a string literal cannot hold it)
BT == "BACKTICK"

SpaceChars == {" ", "\t", "\n", "\r"}
WordChars == {"a", "b", "c", "d", "e", "f", "g", "h", "i", "j", "k", "l", "m",
              "n", "o", "p", "q", "r", "s", "t", "u", "v", "w", "x", "y", "z",
              "0", "1", "2", "3", "4", "5", "6", "7", "8", "9", "_"}

NoMatch == -1

\* s[i] with Python's 0-based index
At(s, i) == s[i + 1]

\* s[a:b]
Slice(s, a, b) == SubSeq(s, a + 1, b)

Min(S) == CHOOSE x \in S : \A y \in S : x <= y

\* the element of a one-element set (binds a value that is used many times)
TheOne(S) == CHOOSE x \in S : TRUE

\* a literal run of the pattern matched at offset i: the offset after it
MatchLit(s, i, w) ==
    IF i >= 0 /\ i + Len(w) <= Len(s) /\ \A k \in 1..Len(w) : s[i + k] = w[k]
    THEN i + Len(w) ELSE NoMatch

\* \s* (greedy) from offset i: the offset after the run
RECURSIVE SkipSpaces(_, _)
SkipSpaces(s, i) ==
    IF i < Len(s) /\ At(s, i) \in SpaceChars THEN SkipSpaces(s, i + 1) ELSE i

\* [^)]* (greedy) from offset i
RECURSIVE SkipNotParen(_, _)
SkipNotParen(s, i) ==
    IF i < Len(s) /\ At(s, i) # ")" THEN SkipNotParen(s, i + 1) ELSE i

kw_function == <<"f", "u", "n", "c", "t", "i", "o", "n">>
kw_return == <<"r", "e", "t", "u", "r", "n">>
kw_const == <<"c", "o", "n", "s", "t">>
kw_let == <<"l", "e", "t">>
kw_var == <<"v", "a", "r">>
doc_open == <<"/", "*", "*">>

(***************************************************************************)
(* The three regular expressions of find_function_and_template.  Each      *)
(* ...At operator is the match attempted at one offset (the offset after   *)
(* the match, or NoMatch); re.search takes the leftmost offset that        *)
(* matches.  Every greedy run is followed by a character it cannot hold,   *)
(* so no backtracking changes the outcome.                                 *)
(***************************************************************************)

\* function\s+NAME\s*\([^)]*\)\s*\{
FuncPatternAt(s, i, name) ==
    LET a == MatchLit(s, i, kw_function)
        b == IF a = NoMatch THEN NoMatch ELSE SkipSpaces(s, a)
        c == IF b = NoMatch \/ b = a THEN NoMatch ELSE MatchLit(s, b, name)
        d == IF c = NoMatch THEN NoMatch ELSE MatchLit(s, SkipSpaces(s, c), <<"(">>)
        e == IF d = NoMatch THEN NoMatch ELSE MatchLit(s, SkipNotParen(s, d), <<")">>)
    IN  IF e = NoMatch THEN NoMatch ELSE MatchLit(s, SkipSpaces(s, e), <<"{">>)

\* \n(?:function\s+\w+|/\*\*): whether it matches at offset i
NextFuncAt(s, i) ==
    /\ i < Len(s)
    /\ At(s, i) = NL
    /\ \/ LET a == MatchLit(s, i + 1, kw_function)
              b == IF a = NoMatch THEN NoMatch ELSE SkipSpaces(s, a)
          IN  a # NoMatch /\ b > a /\ b < Len(s) /\ At(s, b) \in WordChars
       \/ MatchLit(s, i + 1, doc_open) # NoMatch

\* \s*VAR\s*=\s*` from offset i
AssignTailAt(s, i, v) ==
    LET a == MatchLit(s, SkipSpaces(s, i), v)
        b == IF a = NoMatch THEN NoMatch ELSE MatchLit(s, SkipSpaces(s, a), <<"=">>)
    IN  IF b = NoMatch THEN NoMatch ELSE MatchLit(s, SkipSpaces(s, b), <<BT>>)

\* return\s*`  or  (?:const|let|var)?\s*VAR\s*=\s*`
AssignmentPatternAt(s, i, v) ==
    IF v = kw_return
    THEN LET a == MatchLit(s, i, kw_return)
         IN  IF a = NoMatch THEN NoMatch ELSE MatchLit(s, SkipSpaces(s, a), <<BT>>)
    ELSE LET withKw(k) == LET a == MatchLit(s, i, k)
                          IN  IF a = NoMatch THEN NoMatch ELSE AssignTailAt(s, a, v)
         IN  IF withKw(kw_const) # NoMatch THEN withKw(kw_const)
             ELSE IF withKw(kw_let) # NoMatch THEN withKw(kw_let)
             ELSE IF withKw(kw_var) # NoMatch THEN withKw(kw_var)
             ELSE AssignTailAt(s, i, v)

\* re.search(func_pattern, code): func_match.end(), or NoMatch
SearchFunc(s, name) ==
    LET hits == {i \in 0..Len(s) : FuncPatternAt(s, i, name) # NoMatch}
    IN  IF hits = {} THEN NoMatch ELSE FuncPatternAt(s, Min(hits), name)

\* re.search(next-function pattern, s): next_func.start(), or NoMatch
SearchNextFunc(s) ==
    LET hits == {i \in 0..Len(s) : NextFuncAt(s, i)}
    IN  IF hits = {} THEN NoMatch ELSE Min(hits)

\* re.search(assignment_pattern, func_body): assignment_match.end(), or NoMatch
SearchAssignment(s, v) ==
    LET hits == {i \in 0..Len(s) : AssignmentPatternAt(s, i, v) # NoMatch}
    IN  IF hits = {} THEN NoMatch ELSE AssignmentPatternAt(s, Min(hits), v)

\* func_end: the start of the next function after func_start, or len(code)
FuncEnd(s, fstart) ==
    LET nf == SearchNextFunc(Slice(s, fstart, Len(s)))
    IN  IF nf # NoMatch THEN fstart + nf ELSE Len(s)

(***************************************************************************)
(* The closing-backtick scan: one iteration of the while loop.             *)
(***************************************************************************)
\* mutant: a backslash escapes nothing
IsEscape_Never(s, p) == FALSE

IsEscape(s, p) == At(s, p) = BS /\ p + 1 < Len(s)
IsTerminator(s, p, inx) == At(s, p) = BT /\ ~inx
IsInterpOpen(s, p) == At(s, p) = "$" /\ p + 1 < Len(s) /\ At(s, p + 1) = "{"

\* mutant: an opening brace inside an interpolation is not counted
ExprDepthAfter_NoOpen(c, d) == IF c = "}" THEN d - 1 ELSE d

\* the depth counter after one character inside an interpolation
ExprDepthAfter(c, d) == IF c = "{" THEN d + 1 ELSE IF c = "}" THEN d - 1 ELSE d

\* the scan state after one iteration; break leaves pos on the backtick
LoopBody(s, st) ==
    IF IsEscape(s, st.pos)
    THEN [st EXCEPT !.pos = @ + 2]
    ELSE IF IsTerminator(s, st.pos, st.in_expression)
    THEN IF st.depth - 1 = 0
         THEN [st EXCEPT !.depth = @ - 1]
         ELSE [st EXCEPT !.depth = @ - 1, !.pos = @ + 1]
    ELSE IF IsInterpOpen(s, st.pos)
    THEN [st EXCEPT !.in_expression = TRUE, !.expr_depth = 1, !.pos = @ + 2]
    ELSE IF st.in_expression
    THEN LET d == ExprDepthAfter(At(s, st.pos), st.expr_depth)
         IN  [st EXCEPT !.expr_depth = d,
                        !.in_expression = ~(At(s, st.pos) = "}" /\ d = 0),
                        !.pos = @ + 1]
    ELSE [st EXCEPT !.pos = @ + 1]

LoopCond(s, st) == st.pos < Len(s) /\ st.depth > 0

\* n iterations of the loop, or as many as the loop condition allows
RECURSIVE Iterations(_, _, _)
Iterations(s, st, n) ==
    IF n = 0 THEN st
    ELSE IF n = 1 THEN (IF LoopCond(s, st) THEN LoopBody(s, st) ELSE st)
    ELSE TheOne({IF LoopCond(s, half)
                 THEN Iterations(s, half, n - (n \div 2))
                 ELSE half : half \in {Iterations(s, st, n \div 2)}})

\* the while loop run to its exit: every iteration advances pos or ends it
ScanLoop(s, st) == TheOne({Iterations(s, st0, Len(s) + 1) : st0 \in {st}})

NoRegion == <<>>
NoError == "None"
FunctionNotFound == "Could not find function"
AssignmentNotFound == "Could not find assignment"
UnterminatedLiteral == "Could not find closing backtick"

ScanStart(tstart) ==
    [pos |-> tstart, depth |-> 1, in_expression |-> FALSE, expr_depth |-> 0]

\* mutant: the Region ends one past the closing backtick
ScanResult_PastBacktick(tstart, st) ==
    IF st.depth # 0
    THEN [region |-> NoRegion, error |-> UnterminatedLiteral]
    ELSE [region |-> <<tstart, st.pos + 1>>, error |-> NoError]

\* what the function returns once the loop is left
ScanResult(tstart, st) ==
    IF st.depth # 0
    THEN [region |-> NoRegion, error |-> UnterminatedLiteral]
    ELSE [region |-> <<tstart, st.pos>>, error |-> NoError]

\* the whole function, as update_code_gs calls it
find_function_and_template(s, name, v) ==
    TheOne({
        IF fstart = NoMatch
        THEN [region |-> NoRegion, error |-> FunctionNotFound]
        ELSE TheOne({
                 IF am = NoMatch
                 THEN [region |-> NoRegion, error |-> AssignmentNotFound]
                 ELSE ScanResult(fstart + am, ScanLoop(s, ScanStart(fstart + am)))
                 : am \in {SearchAssignment(Slice(s, fstart, FuncEnd(s, fstart)), v)}})
        : fstart \in {SearchFunc(s, name)}})

(***************************************************************************)
(* String functions of the sync script, over sequences of characters.      *)
(***************************************************************************)

\* s.find(w, from): the leftmost offset >= from where w occurs, or NoMatch
Find(s, w, from) ==
    LET hits == {i \in from..Len(s) : MatchLit(s, i, w) # NoMatch}
    IN  IF hits = {} THEN NoMatch ELSE Min(hits)

\* s.replace(old, new) from offset i on (old is not empty)
RECURSIVE ReplaceFrom(_, _, _, _)
ReplaceFrom(s, old, new, i) ==
    IF i >= Len(s) THEN <<>>
    ELSE IF MatchLit(s, i, old) # NoMatch
    THEN new \o ReplaceFrom(s, old, new, i + Len(old))
    ELSE <<At(s, i)>> \o ReplaceFrom(s, old, new, i + 1)

Replace(s, old, new) == ReplaceFrom(s, old, new, 0)

\* s.strip()
Strip(s) ==
    LET keep == {i \in 0..(Len(s) - 1) : At(s, i) \notin SpaceChars}
    IN  IF keep = {} THEN <<>>
        ELSE Slice(s, Min(keep), (CHOOSE x \in keep : \A y \in keep : y <= x) + 1)

tag_body == <<"<", "b", "o", "d", "y">>
tag_body_end == <<"<", "/", "b", "o", "d", "y", ">">>

\* <body[^>]*>(.*?)</body> attempted at offset i: <<start, end>> of group 1
BodyPatternAt(s, i) ==
    LET a == MatchLit(s, i, tag_body)
        b == IF a = NoMatch THEN NoMatch ELSE Find(s, <<">">>, a)
        c == IF b = NoMatch THEN NoMatch ELSE Find(s, tag_body_end, b + 1)
    IN  IF c = NoMatch THEN <<>> ELSE <<b + 1, c>>

extract_body_content(html_content) ==
    LET hits == {i \in 0..Len(html_content) : BodyPatternAt(html_content, i) # <<>>}
    IN  IF hits = {} THEN html_content
        ELSE LET g == BodyPatternAt(html_content, Min(hits))
             IN  Strip(Slice(html_content, g[1], g[2]))

\* sorted(placeholders.items(), key=len of the literal, reverse=True): stable
RECURSIVE SortByLength(_)
SortByLength(ps) ==
    IF ps = <<>> THEN <<>>
    ELSE LET longest == Min({i \in 1..Len(ps) :
                                \A j \in 1..Len(ps) : Len(ps[j][1]) <= Len(ps[i][1])})
         IN  <<ps[longest]>> \o
             SortByLength(SubSeq(ps, 1, longest - 1) \o SubSeq(ps, longest + 1, Len(ps)))

RECURSIVE ApplyPlaceholders(_, _)
ApplyPlaceholders(html, ps) ==
    IF ps = <<>> THEN html
    ELSE ApplyPlaceholders(Replace(html, ps[1][1], ps[1][2]), Tail(ps))

convert_to_template_literal(html, placeholders) ==
    ApplyPlaceholders(html, SortByLength(placeholders))

\* \$\{[^}]+\} attempted at offset i: the offset after the match, or NoMatch
ExpressionAt(s, i) ==
    LET a == MatchLit(s, i, <<"$", "{">>)
        b == IF a = NoMatch THEN NoMatch ELSE Find(s, <<"}">>, a)
    IN  IF b = NoMatch \/ b = a THEN NoMatch ELSE b + 1

Digits == <<"0", "1", "2", "3", "4", "5", "6", "7", "8", "9">>

\* f'__EXPR_{k}__' (k below 10 in every text of the model)
Marker(k) == <<"_", "_", "E", "X", "P", "R", "_", Digits[k + 1], "_", "_">>

\* re.sub with save_expression, from offset i with k expressions saved so
\* far: the text with markers, and the saved expressions
RECURSIVE SaveExpressions(_, _, _)
SaveExpressions(s, i, saved) ==
    IF i >= Len(s) THEN [text |-> <<>>, expressions |-> saved]
    ELSE IF ExpressionAt(s, i) # NoMatch
    THEN LET rest == SaveExpressions(s, ExpressionAt(s, i),
                                     Append(saved, Slice(s, i, ExpressionAt(s, i))))
         IN  [rest EXCEPT !.text = Marker(Len(saved)) \o @]
    ELSE LET rest == SaveExpressions(s, i + 1, saved)
         IN  [rest EXCEPT !.text = <<At(s, i)>> \o @]

RECURSIVE RestoreExpressions(_, _, _)
RestoreExpressions(s, expressions, i) ==
    IF i >= Len(expressions) THEN s
    ELSE RestoreExpressions(Replace(s, Marker(i), expressions[i + 1]), expressions, i + 1)

format_as_template_literal(html_content) ==
    LET saved == SaveExpressions(html_content, 0, <<>>)
        escaped == Replace(saved.text, <<BT>>, <<BS, BT>>)
    IN  RestoreExpressions(escaped, saved.expressions, 0)

\* lines 393-400: every line that is not blank gets four spaces
RECURSIVE IndentLines(_, _)
IndentLines(s, i) ==
    LET nl == Find(s, <<NL>>, i)
        stop == IF nl = NoMatch THEN Len(s) ELSE nl
        line == Slice(s, i, stop)
        out == IF Strip(line) # <<>> THEN <<" ", " ", " ", " ">> \o line ELSE <<>>
    IN  IF nl = NoMatch THEN out ELSE out \o <<NL>> \o IndentLines(s, nl + 1)

template_content_of(html_content, placeholders) ==
    IndentLines(format_as_template_literal(
        convert_to_template_literal(extract_body_content(html_content),
                                    placeholders)), 0)

(***************************************************************************)
(* Source texts.  A text is Head \o Text \o Tail: a function header and    *)
(* the opening of its literal, a literal body of at most MaxLit pieces,    *)
(* and what follows the body.                                              *)
(***************************************************************************)
MaxLit == 4

name_f == <<"f">>
name_g == <<"g">>
name_h == <<"h">>
var_body == <<"b", "o", "d", "y">>

\* function f(x) {\n  const body = `Hi
HeadConst ==
    <<"f", "u", "n", "c", "t", "i", "o", "n", " ", "f", "(", "x", ")", " ", "{",
      NL, " ", " ", "c", "o", "n", "s", "t", " ", "b", "o", "d", "y", " ", "=",
      " ", BT, "H", "i">>
\* function f() {\n return `Hi ${n   (an interpolation already opened)
HeadReturn ==
    <<"f", "u", "n", "c", "t", "i", "o", "n", " ", "f", "(", ")", " ", "{", NL,
      " ", "r", "e", "t", "u", "r", "n", " ", BT, "H", "i", " ", "$", "{", "n">>
\* function g() {\n body = `a`;\n}\nfunction f() {\n let body=`
HeadAfterG ==
    <<"f", "u", "n", "c", "t", "i", "o", "n", " ", "g", "(", ")", " ", "{", NL,
      " ", "b", "o", "d", "y", " ", "=", " ", BT, "a", BT, ";", NL, "}", NL,
      "f", "u", "n", "c", "t", "i", "o", "n", " ", "f", "(", ")", " ", "{", NL,
      " ", "l", "e", "t", " ", "b", "o", "d", "y", "=", BT>>

\* function f() {\n var body = `${`   (an interpolation opening a nested literal)
HeadNested ==
    <<"f", "u", "n", "c", "t", "i", "o", "n", " ", "f", "(", ")", " ", "{", NL,
      " ", "v", "a", "r", " ", "b", "o", "d", "y", " ", "=", " ", BT, "$", "{",
      BT>>

\* `;\n}
TailClose == <<BT, ";", NL, "}">>
\* `;\n}\n/** g */\nfunction g() {\n body = `b}`;\n}
TailCloseThenG ==
    <<BT, ";", NL, "}", NL, "/", "*", "*", " ", "g", " ", "*", "/", NL,
      "f", "u", "n", "c", "t", "i", "o", "n", " ", "g", "(", ")", " ", "{", NL,
      " ", "b", "o", "d", "y", " ", "=", " ", BT, "b", "}", BT, ";", NL, "}">>
\* ;\n}\nfunction g() {\n return `c`;\n}
TailOpenThenG ==
    <<";", NL, "}", NL, "f", "u", "n", "c", "t", "i", "o", "n", " ", "g", "(",
      ")", " ", "{", NL, " ", "r", "e", "t", "u", "r", "n", " ", BT, "c", BT,
      ";", NL, "}">>
\* nothing: the text ends with the literal body
TailNone == <<>>

Pieces == {<<BS>>, <<BT>>, <<"$", "{">>, <<"{">>, <<"}">>}

RECURSIVE TextsOfLen(_)
TextsOfLen(n) ==
    IF n = 0 THEN {<<>>}
    ELSE {t \o p : t \in TextsOfLen(n - 1), p \in Pieces}

Texts == UNION {TextsOfLen(n) : n \in 0..MaxLit}

Scenarios ==
    << [head |-> HeadConst,  tail |-> TailClose,      fn |-> name_f, v |-> var_body],
       [head |-> HeadReturn, tail |-> TailClose,      fn |-> name_f, v |-> kw_return],
       [head |-> HeadAfterG, tail |-> TailCloseThenG, fn |-> name_f, v |-> var_body],
       [head |-> HeadConst,  tail |-> TailCloseThenG, fn |-> name_g, v |-> var_body],
       [head |-> HeadConst,  tail |-> TailNone,       fn |-> name_f, v |-> var_body],
       [head |-> HeadConst,  tail |-> TailOpenThenG,  fn |-> name_f, v |-> var_body],
       [head |-> HeadConst,  tail |-> TailClose,      fn |-> name_h, v |-> var_body],
       [head |-> HeadConst,  tail |-> TailClose,      fn |-> name_f, v |-> kw_return],
       [head |-> HeadReturn, tail |-> TailCloseThenG, fn |-> name_f, v |-> var_body],
       [head |-> HeadNested, tail |-> TailCloseThenG, fn |-> name_f, v |-> var_body] >>

(***************************************************************************)
(* Reference reading of a template literal, used to state the claims: the  *)
(* ECMAScript nesting of literal text, ${ } interpolations, braces inside  *)
(* an interpolation and literals nested in an interpolation, kept as a     *)
(* stack of contexts ("T" literal text, "E" expression).                   *)
(***************************************************************************)
Pop(stack) == SubSeq(stack, 1, Len(stack) - 1)

\* one character (or escape pair, or ${ pair) of the reference reading
RefStep(s, r, stop) ==
    LET p == r.pos
        stack == r.stack
    IN  IF r.status # "reading" THEN r
        ELSE IF p >= stop \/ p >= Len(s) THEN [r EXCEPT !.status = "open"]
        ELSE IF stack[Len(stack)] = "T"
        THEN IF At(s, p) = BS
             THEN IF p + 1 < Len(s) THEN [r EXCEPT !.pos = p + 2]
                  ELSE [r EXCEPT !.status = "open"]
             ELSE IF At(s, p) = BT
             THEN IF Len(stack) = 1 THEN [r EXCEPT !.status = "closed"]
                  ELSE [r EXCEPT !.pos = p + 1, !.stack = Pop(stack)]
             ELSE IF At(s, p) = "$" /\ p + 1 < Len(s) /\ At(s, p + 1) = "{"
             THEN [r EXCEPT !.pos = p + 2, !.stack = Append(stack, "E")]
             ELSE [r EXCEPT !.pos = p + 1]
        ELSE IF At(s, p) = BT
             THEN [r EXCEPT !.pos = p + 1, !.stack = Append(stack, "T"),
                            !.nested = TRUE]
             ELSE IF At(s, p) = "{"
             THEN [r EXCEPT !.pos = p + 1, !.stack = Append(stack, "E")]
             ELSE IF At(s, p) = "}"
             THEN [r EXCEPT !.pos = p + 1, !.stack = Pop(stack)]
             ELSE IF At(s, p) \in {BS, "$"}
             THEN [r EXCEPT !.status = "ill-formed"]
             ELSE [r EXCEPT !.pos = p + 1]

\* n steps of the reference reading
RECURSIVE RefSteps(_, _, _, _)
RefSteps(s, r, stop, n) ==
    IF n = 0 THEN r
    ELSE IF n = 1 THEN RefStep(s, r, stop)
    ELSE TheOne({IF half.status = "reading"
                 THEN RefSteps(s, half, stop, n - (n \div 2))
                 ELSE half : half \in {RefSteps(s, r, stop, n \div 2)}})

\* the reading from offset p up to offset stop: where it stands (pos, the
\* context stack), whether a nested literal was met, and its status: "closed"
\* at the closing backtick, "open" at stop or at the end of the text,
\* "ill-formed" at a backslash or $ inside an expression
RefRun(s, p, stack, nested, stop) ==
    TheOne({RefSteps(s, r0, stop, Len(s) + 1) :
               r0 \in {[pos |-> p, stack |-> stack, nested |-> nested,
                         status |-> "reading"]}})

\* the literal opened just before offset tstart, read to its end
RefLiteral(s, tstart) == RefRun(s, tstart, <<"T">>, FALSE, Len(s))

\* the whole literal is well formed and closes at RefLiteral(..).pos
WellFormed(s, tstart) == RefLiteral(s, tstart).status = "closed"

\* the number of backslashes that end just before offset p, not before lo
RECURSIVE BackslashRun(_, _, _)
BackslashRun(s, p, lo) ==
    IF p > lo /\ At(s, p - 1) = BS THEN 1 + BackslashRun(s, p - 1, lo) ELSE 0

\* offset p holds a backtick that no backslash escapes
UnescapedBacktick(s, p, lo) == At(s, p) = BT /\ BackslashRun(s, p, lo) % 2 = 0

Unset == -1

Located == pc = "done" /\ result.region # NoRegion
Scanned == pc = "done" /\ template_start # Unset

BatchIdle ==
    /\ code_gs = <<>> /\ templates = <<>> /\ previews = <<>>
    /\ dry_run = FALSE /\ writable = FALSE /\ phase = "idle" /\ idx = 0
    /\ updated_count = 0 /\ skipped_count = 0 /\ error_count = 0 /\ n_writes = 0

\* a call find_function_and_template(code, function_name, html_var)
Init ==
    /\ \E sc \in 1..Len(Scenarios), t \in Texts :
          /\ code = Scenarios[sc].head \o t \o Scenarios[sc].tail
          /\ function_name = Scenarios[sc].fn
          /\ html_var = Scenarios[sc].v
    /\ pc = "find_function"
    /\ func_start = Unset /\ func_end = Unset /\ template_start = Unset
    /\ pos = Unset /\ depth = Unset /\ in_expression = FALSE /\ expr_depth = Unset
    /\ result = [region |-> NoRegion, error |-> NoError]
    /\ BatchIdle

\* lines 276-280: no function header matches
FunctionMissing ==
    /\ pc = "find_function"
    /\ SearchFunc(code, function_name) = NoMatch
    /\ result' = [region |-> NoRegion, error |-> FunctionNotFound]
    /\ pc' = "done"
    /\ UNCHANGED <<code, function_name, html_var, func_start, func_end,
                   template_start, pos, depth, in_expression, expr_depth>>
    /\ UNCHANGED batchVars

\* lines 276-288: the header is found and the body bounded
FunctionFound ==
    /\ pc = "find_function"
    /\ SearchFunc(code, function_name) # NoMatch
    /\ func_start' = SearchFunc(code, function_name)
    /\ func_end' = FuncEnd(code, func_start')
    /\ pc' = "find_assignment"
    /\ UNCHANGED <<code, function_name, html_var, template_start, pos, depth,
                   in_expression, expr_depth, result>>
    /\ UNCHANGED batchVars

\* mutant: a missing assignment is reported as a missing function
AssignmentMissing_AsFunctionError ==
    /\ pc = "find_assignment"
    /\ SearchAssignment(Slice(code, func_start, func_end), html_var) = NoMatch
    /\ result' = [region |-> NoRegion, error |-> FunctionNotFound]
    /\ pc' = "done"
    /\ UNCHANGED <<code, function_name, html_var, func_start, func_end,
                   template_start, pos, depth, in_expression, expr_depth>>
    /\ UNCHANGED batchVars

\* lines 292-301: the body holds no assignment
AssignmentMissing ==
    /\ pc = "find_assignment"
    /\ SearchAssignment(Slice(code, func_start, func_end), html_var) = NoMatch
    /\ result' = [region |-> NoRegion, error |-> AssignmentNotFound]
    /\ pc' = "done"
    /\ UNCHANGED <<code, function_name, html_var, func_start, func_end,
                   template_start, pos, depth, in_expression, expr_depth>>
    /\ UNCHANGED batchVars

\* lines 292-310: the assignment is found and the scan set up
AssignmentFound ==
    /\ pc = "find_assignment"
    /\ SearchAssignment(Slice(code, func_start, func_end), html_var) # NoMatch
    /\ template_start' =
          func_start + SearchAssignment(Slice(code, func_start, func_end), html_var)
    /\ pos' = ScanStart(template_start').pos
    /\ depth' = ScanStart(template_start').depth
    /\ in_expression' = ScanStart(template_start').in_expression
    /\ expr_depth' = ScanStart(template_start').expr_depth
    /\ pc' = "scan"
    /\ UNCHANGED <<code, function_name, html_var, func_start, func_end, result>>
    /\ UNCHANGED batchVars

ScanState ==
    [pos |-> pos, depth |-> depth, in_expression |-> in_expression,
     expr_depth |-> expr_depth]

\* line 312: the loop is entered again
InLoop == pc = "scan" /\ LoopCond(code, ScanState)

\* one iteration of the while loop
Iterate ==
    /\ pos' = LoopBody(code, ScanState).pos
    /\ depth' = LoopBody(code, ScanState).depth
    /\ in_expression' = LoopBody(code, ScanState).in_expression
    /\ expr_depth' = LoopBody(code, ScanState).expr_depth
    /\ UNCHANGED <<code, function_name, html_var, pc, func_start, func_end,
                   template_start, result>>
    /\ UNCHANGED batchVars

\* lines 315-317
ScanEscape == InLoop /\ IsEscape(code, pos) /\ Iterate

\* lines 319-322
ScanTerminator ==
    /\ InLoop
    /\ ~IsEscape(code, pos)
    /\ IsTerminator(code, pos, in_expression)
    /\ Iterate

\* lines 323-326, 335
ScanInterpOpen ==
    /\ InLoop
    /\ ~IsEscape(code, pos)
    /\ ~IsTerminator(code, pos, in_expression)
    /\ IsInterpOpen(code, pos)
    /\ Iterate

\* lines 327-335
ScanExpression ==
    /\ InLoop
    /\ ~IsEscape(code, pos)
    /\ ~IsTerminator(code, pos, in_expression)
    /\ ~IsInterpOpen(code, pos)
    /\ in_expression
    /\ Iterate

\* line 335 alone
ScanPlain ==
    /\ InLoop
    /\ ~IsEscape(code, pos)
    /\ ~IsTerminator(code, pos, in_expression)
    /\ ~IsInterpOpen(code, pos)
    /\ ~in_expression
    /\ Iterate

\* lines 337-342: the loop is left and the function returns
LoopExit ==
    /\ pc = "scan"
    /\ ~LoopCond(code, ScanState)
    /\ result' = ScanResult(template_start, ScanState)
    /\ pc' = "done"
    /\ UNCHANGED <<code, function_name, html_var, func_start, func_end,
                   template_start, pos, depth, in_expression, expr_depth>>
    /\ UNCHANGED batchVars

Next ==
    \/ FunctionMissing
    \/ FunctionFound
    \/ AssignmentMissing
    \/ AssignmentFound
    \/ ScanEscape
    \/ ScanTerminator
    \/ ScanInterpOpen
    \/ ScanExpression
    \/ ScanPlain
    \/ LoopExit

Spec == Init /\ [][Next]_vars

(***************************************************************************)
(* Claims about find_function_and_template (specification Spec).           *)
(***************************************************************************)

\* C1: whenever the function and the assignment are found and the literal
\* that opens there is a well-formed template literal closed inside the
\* function's body, the call returns the
\* Region of exactly its text (from after the opening backtick to the
\* closing backtick) and no error.
C1_LocatesText ==
    (/\ Scanned
     /\ WellFormed(code, template_start)
     /\ RefLiteral(code, template_start).pos < func_end) =>
        result = [region |-> <<template_start, RefLiteral(code, template_start).pos>>,
                  error |-> NoError]

\* C2: a returned Region (start, end) has 0 <= start <= end <= len(code),
\* a backtick just before start and a backtick at end, and comes with no
\* error; an error comes with no Region.
C2_RegionInvariant ==
    pc = "done" =>
        /\ result.region # NoRegion =>
              /\ Len(result.region) = 2
              /\ 0 <= result.region[1]
              /\ result.region[1] <= result.region[2]
              /\ result.region[2] <= Len(code)
              /\ result.region[1] >= 1
              /\ At(code, result.region[1] - 1) = BT
              /\ result.region[2] < Len(code)
              /\ At(code, result.region[2]) = BT
              /\ result.error = NoError
        /\ result.error # NoError => result.region = NoRegion
        /\ result.region = NoRegion => result.error # NoError

C2_Witness ==
    Located /\ result.region[1] < result.region[2]

\* C3: the returned end is never a backtick escaped by a backslash (the
\* backslashes just before it, counted from the start of the literal, pair
\* up), and a literal with no interpolation before its first unescaped
\* backtick is located up to exactly that backtick.
C3_EscapedBacktickNeverCloses ==
    /\ Located =>
          UnescapedBacktick(code, result.region[2], template_start)
    /\ Scanned =>
          LET firsts == {p \in template_start..(Len(code) - 1) :
                            UnescapedBacktick(code, p, template_start)}
          IN  (/\ firsts # {}
               /\ \A q \in template_start..(Min(firsts) - 1) : At(code, q) # "$")
              => result.region = <<template_start, Min(firsts)>>

C3_Witness ==
    /\ Located
    /\ \E p \in result.region[1]..(result.region[2] - 2) :
          /\ At(code, p) = BS
          /\ At(code, p + 1) = BT
          /\ BackslashRun(code, p, template_start) % 2 = 0

\* C4: the scan is inside an interpolation exactly while the brace depth is
\* at least 1; while it reads a literal whose interpolations hold only
\* braces and plain text, the depth equals the number of open ${ and {
\* of the reference reading; a Region is returned only from outside every
\* interpolation, and for such a well-formed literal it ends at the
\* literal's own closing backtick.
C4_BraceNesting ==
    /\ (pc \in {"scan", "done"} /\ template_start # Unset) =>
          (in_expression <=> expr_depth >= 1)
    /\ Located => ~in_expression
    /\ pc = "scan" =>
          LET r == RefRun(code, template_start, <<"T">>, FALSE, pos)
          IN  (r.status = "open" /\ ~r.nested /\ r.pos = pos) =>
                 expr_depth = Len(r.stack) - 1
    /\ Scanned =>
          LET r == RefLiteral(code, template_start)
          IN  (r.status = "closed" /\ ~r.nested) =>
                 result.region = <<template_start, r.pos>>

C4_Witness ==
    /\ Located
    /\ WellFormed(code, template_start)
    /\ ~RefLiteral(code, template_start).nested
    /\ \E p \in result.region[1]..(result.region[2] - 1) :
          /\ IsInterpOpen(code, p)
          /\ At(code, p + 2) = "{"
          /\ Len(RefRun(code, template_start, <<"T">>, FALSE, p + 3).stack) = 3

\* C5: when an interpolation of the located literal (well formed, closed
\* inside the function's body) holds a nested backtick literal, the
\* returned end is the outer literal's own closing
\* backtick.
C5_NestedLiteral ==
    (/\ Scanned
     /\ WellFormed(code, template_start)
     /\ RefLiteral(code, template_start).pos < func_end
     /\ RefLiteral(code, template_start).nested) =>
        /\ result.region # NoRegion
        /\ result.region[2] = RefLiteral(code, template_start).pos

\* C6: in a text with two functions that assign a literal to the same
\* variable, the Region returned for one of them starts and ends inside
\* that function's window [func_start, func_end].
C6_WindowBounded ==
    (/\ Located
     /\ SearchFunc(code, name_f) # NoMatch
     /\ SearchFunc(code, name_g) # NoMatch
     /\ WellFormed(code, template_start)
     /\ RefLiteral(code, template_start).pos < func_end) =>
        /\ func_start <= result.region[1]
        /\ result.region[2] <= func_end

\* C7: a literal with no closing backtick before the end of the text or
\* before the next function boundary yields UnterminatedLiteral and no
\* Region.
C7_Unterminated ==
    (/\ Scanned
     /\ ~RefLiteral(code, template_start).nested
     /\ \/ RefLiteral(code, template_start).status = "open"
        \/ /\ RefLiteral(code, template_start).status = "closed"
           /\ RefLiteral(code, template_start).pos >= func_end) =>
        result = [region |-> NoRegion, error |-> UnterminatedLiteral]

\* C8: a call ends with a Region and no error or with one of the three
\* errors and no Region; the error is FunctionNotFound exactly when no
\* header of the function matches, and AssignmentNotFound exactly when the
\* header matches and the bounded body holds no assignment.
C8_DistinctOutcomes ==
    pc = "done" =>
        /\ \/ result.region # NoRegion /\ result.error = NoError
           \/ /\ result.region = NoRegion
              /\ result.error \in {FunctionNotFound, AssignmentNotFound,
                                    UnterminatedLiteral}
        /\ result.error = FunctionNotFound <=>
              SearchFunc(code, function_name) = NoMatch
        /\ result.error = AssignmentNotFound <=>
              /\ SearchFunc(code, function_name) # NoMatch
              /\ LET fs == SearchFunc(code, function_name)
                 IN  SearchAssignment(Slice(code, fs, FuncEnd(code, fs)), html_var)
                        = NoMatch

\* a function that exists, with the variable assigned only in the next one
C8_Witness ==
    /\ pc = "done"
    /\ result.error = AssignmentNotFound
    /\ SearchAssignment(Slice(code, func_start, Len(code)), html_var) # NoMatch

(***************************************************************************)
(* The batch: main's loop over the selected templates, with                *)
(* update_code_gs run whole in one step.  Code.gs is code_gs; writable     *)
(* tells whether open(path, 'w') succeeds.  A preview file is missing,     *)
(* present but unreadable (read_file raises), or present with a text.      *)
(***************************************************************************)
MaxTemplates == 2

Placeholders ==
    << <<(<<"S", "a">>), (<<"$", "{", "a", "}">>)>>,
       <<(<<"S", "a", "r">>), (<<"$", "{", "b", "}">>)>> >>

\* the entries an EMAIL_TEMPLATES table is drawn from
Configs ==
    { [function |-> name_f, html_var |-> var_body,  placeholders |-> Placeholders, skip |-> FALSE],
      [function |-> name_g, html_var |-> var_body,  placeholders |-> Placeholders, skip |-> FALSE],
      [function |-> name_f, html_var |-> kw_return, placeholders |-> Placeholders, skip |-> FALSE],
      [function |-> name_h, html_var |-> var_body,  placeholders |-> Placeholders, skip |-> FALSE],
      [function |-> name_f, html_var |-> var_body,  placeholders |-> Placeholders, skip |-> TRUE] }

\* <body> Sar`</body>
PreviewBody ==
    <<"<", "b", "o", "d", "y", ">", " ", "S", "a", "r", BT, "<", "/", "b", "o",
      "d", "y", ">">>
\* Sa\n\nx
PreviewBare == <<"S", "a", NL, NL, "x">>

PreviewFiles ==
    { [state |-> "missing", text |-> <<>>],
      [state |-> "unreadable", text |-> <<>>],
      [state |-> "ok", text |-> PreviewBody],
      [state |-> "ok", text |-> PreviewBare] }

CodeGsFiles ==
    { HeadConst \o TailCloseThenG,
      HeadReturn \o <<"}">> \o TailClose,
      HeadConst \o TailOpenThenG }

\* mutant: the splice resumes one character after the Region's end
Splice_DropsBacktick(s, start, end, content) ==
    Slice(s, 0, start) \o <<NL>> \o content \o <<NL, " ", " ">>
        \o Slice(s, end + 1, Len(s))

\* line 422: code[:start] + '\n' + template_content + '\n  ' + code[end:]
Splice(s, start, end, content) ==
    Slice(s, 0, start) \o <<NL>> \o content \o <<NL, " ", " ">>
        \o Slice(s, end, Len(s))

\* update_code_gs: what it returns ("True", "False" or "raise" for an
\* exception), the text of Code.gs after it, and whether write_file wrote
update_code_gs(s, template_content, cfg, dry, wr) ==
    TheOne({
        IF cfg.skip
        THEN [ret |-> "False", code |-> s, wrote |-> FALSE]
        ELSE IF r.error # NoError
        THEN [ret |-> "False", code |-> s, wrote |-> FALSE]
        ELSE IF dry
        THEN [ret |-> "True", code |-> s, wrote |-> FALSE]
        ELSE IF ~wr
        THEN [ret |-> "raise", code |-> s, wrote |-> FALSE]
        ELSE [ret |-> "True",
              code |-> Splice(s, r.region[1], r.region[2], template_content),
              wrote |-> TRUE]
        : r \in {find_function_and_template(s, cfg.function, cfg.html_var)}})

LocIdle ==
    /\ code = <<>> /\ function_name = <<>> /\ html_var = <<>> /\ pc = "idle"
    /\ func_start = Unset /\ func_end = Unset /\ template_start = Unset
    /\ pos = Unset /\ depth = Unset /\ in_expression = FALSE /\ expr_depth = Unset
    /\ result = [region |-> NoRegion, error |-> NoError]

\* lines 491-494: the run is about to enter the loop
BatchInit ==
    /\ LocIdle
    /\ code_gs \in CodeGsFiles
    /\ \E n \in 1..MaxTemplates :
          /\ templates \in [1..n -> Configs]
          /\ previews \in [1..n -> PreviewFiles]
    /\ dry_run \in BOOLEAN
    /\ writable \in BOOLEAN
    /\ phase = "loop"
    /\ idx = 0
    /\ updated_count = 0 /\ skipped_count = 0 /\ error_count = 0
    /\ n_writes = 0

InBatch == phase = "loop" /\ idx < Len(templates)
config == templates[idx + 1]
preview == previews[idx + 1]

\* what update_code_gs does for the current template
Update ==
    update_code_gs(code_gs, template_content_of(preview.text, config.placeholders),
                   config, dry_run, writable)

\* lines 499-502: the preview file does not exist
TemplateMissing ==
    /\ InBatch
    /\ preview.state = "missing"
    /\ error_count' = error_count + 1
    /\ idx' = idx + 1
    /\ UNCHANGED <<code_gs, templates, previews, dry_run, writable, phase,
                   updated_count, skipped_count, n_writes>>
    /\ UNCHANGED locVars

\* lines 504-507: the template is marked skip
TemplateSkipped ==
    /\ InBatch
    /\ preview.state # "missing"
    /\ config.skip
    /\ skipped_count' = skipped_count + 1
    /\ idx' = idx + 1
    /\ UNCHANGED <<code_gs, templates, previews, dry_run, writable, phase,
                   updated_count, error_count, n_writes>>
    /\ UNCHANGED locVars

\* line 509: read_file raises outside the try block and the run ends
PreviewReadRaises ==
    /\ InBatch
    /\ preview.state = "unreadable"
    /\ ~config.skip
    /\ phase' = "aborted"
    /\ UNCHANGED <<code_gs, templates, previews, dry_run, writable, idx,
                   updated_count, skipped_count, error_count, n_writes>>
    /\ UNCHANGED locVars

\* lines 509-513: update_code_gs returns True
TemplateUpdated ==
    /\ InBatch
    /\ preview.state = "ok"
    /\ ~config.skip
    /\ \E u \in {Update} :
          /\ u.ret = "True"
          /\ code_gs' = u.code
          /\ n_writes' = IF u.wrote THEN n_writes + 1 ELSE n_writes
    /\ updated_count' = updated_count + 1
    /\ idx' = idx + 1
    /\ UNCHANGED <<templates, previews, dry_run, writable, phase,
                   skipped_count, error_count>>
    /\ UNCHANGED locVars

\* lines 509-515: update_code_gs returns False
TemplateNotLocated ==
    /\ InBatch
    /\ preview.state = "ok"
    /\ ~config.skip
    /\ \E u \in {Update} :
          /\ u.ret = "False"
          /\ code_gs' = u.code
          /\ n_writes' = IF u.wrote THEN n_writes + 1 ELSE n_writes
    /\ skipped_count' = skipped_count + 1
    /\ idx' = idx + 1
    /\ UNCHANGED <<templates, previews, dry_run, writable, phase,
                   updated_count, error_count>>
    /\ UNCHANGED locVars

\* lines 509-518: update_code_gs raises and the exception is caught
TemplateRaised ==
    /\ InBatch
    /\ preview.state = "ok"
    /\ ~config.skip
    /\ \E u \in {Update} :
          /\ u.ret = "raise"
          /\ code_gs' = u.code
          /\ n_writes' = IF u.wrote THEN n_writes + 1 ELSE n_writes
    /\ error_count' = error_count + 1
    /\ idx' = idx + 1
    /\ UNCHANGED <<templates, previews, dry_run, writable, phase,
                   updated_count, skipped_count>>
    /\ UNCHANGED locVars

\* lines 520-530: the loop is over and the summary printed
Summary ==
    /\ phase = "loop"
    /\ idx = Len(templates)
    /\ phase' = "summary"
    /\ UNCHANGED <<code_gs, templates, previews, dry_run, writable, idx,
                   updated_count, skipped_count, error_count, n_writes>>
    /\ UNCHANGED locVars

BatchNext ==
    \/ TemplateMissing
    \/ TemplateSkipped
    \/ PreviewReadRaises
    \/ TemplateUpdated
    \/ TemplateNotLocated
    \/ TemplateRaised
    \/ Summary

BatchSpec == BatchInit /\ [][BatchNext]_vars

(***************************************************************************)
(* Claims about the batch (specification BatchSpec).                       *)
(***************************************************************************)

\* C9: a step changes Code.gs or calls write_file only when dry_run is
\* false, the current template is not marked skip and the locator returns
\* a Region for it; the step is then one write, and the text before the
\* Region's start and from the Region's end on is kept as it was.
C9_WriteFrame ==
    [][(code_gs' # code_gs \/ n_writes' # n_writes) =>
          /\ InBatch
          /\ ~dry_run
          /\ ~config.skip
          /\ preview.state = "ok"
          /\ n_writes' = n_writes + 1
          /\ \E r \in {find_function_and_template(code_gs, config.function,
                                                   config.html_var)} :
                 /\ r.region # NoRegion
                 /\ Len(code_gs') >= Len(code_gs) - (r.region[2] - r.region[1])
                 /\ Slice(code_gs', 0, r.region[1]) = Slice(code_gs, 0, r.region[1])
                 /\ Slice(code_gs', Len(code_gs') - (Len(code_gs) - r.region[2]),
                          Len(code_gs'))
                       = Slice(code_gs, r.region[2], Len(code_gs))]_vars

\* a run that wrote Code.gs and changed it
C9_Witness ==
    /\ n_writes >= 1
    /\ code_gs \notin CodeGsFiles
    /\ ~dry_run

\* C10: no template ends the run before the summary; every template handled
\* so far has incremented exactly one counter, so at the summary the three
\* counters add up to the number of selected templates.
C10_SkipAndReport ==
    /\ phase # "aborted"
    /\ phase \in {"loop", "summary"} =>
          updated_count + skipped_count + error_count = idx
    /\ phase = "summary" =>
          updated_count + skipped_count + error_count = Len(templates)

(***************************************************************************)
(* Running the script again.  One template is selected; its preview holds  *)
(* one of the literal bodies of Texts, or is one of PreviewFiles.  After a *)
(* run that wrote Code.gs the script is started again on the same files.   *)
(***************************************************************************)
MaxRuns == 2

SyncPreviews ==
    PreviewFiles \cup {[state |-> "ok", text |-> t] : t \in Texts}

\* lines 491-494 of the first run
SyncInit ==
    /\ LocIdle
    /\ code_gs \in CodeGsFiles
    /\ templates \in [1..1 -> Configs]
    /\ previews \in [1..1 -> SyncPreviews]
    /\ dry_run \in BOOLEAN
    /\ writable \in BOOLEAN
    /\ phase = "loop"
    /\ idx = 0
    /\ updated_count = 0 /\ skipped_count = 0 /\ error_count = 0
    /\ n_writes = 0

\* main is entered again after a run that wrote Code.gs: lines 491-494
Rerun ==
    /\ phase = "summary"
    /\ n_writes >= 1
    /\ n_writes < MaxRuns
    /\ phase' = "loop"
    /\ idx' = 0
    /\ updated_count' = 0 /\ skipped_count' = 0 /\ error_count' = 0
    /\ UNCHANGED <<code_gs, templates, previews, dry_run, writable, n_writes>>
    /\ UNCHANGED locVars

SyncNext ==
    \/ BatchNext
    \/ Rerun

SyncSpec == SyncInit /\ [][SyncNext]_vars

(***************************************************************************)
(* Claims about repeated runs (specification SyncSpec).                    *)
(***************************************************************************)

\* C11: when update_code_gs writes Code.gs, the locator applied to the
\* written text returns the Region (start, start + len(content) + 4), the
\* slice of that Region is the spliced text '\n' + content + '\n  ', and
\* the same update applied to the written text gives the written text.
C11_Idempotent ==
    [][n_writes' = n_writes + 1 =>
          \E r \in {find_function_and_template(code_gs, config.function,
                                               config.html_var)},
             content \in {template_content_of(preview.text, config.placeholders)},
             again \in {find_function_and_template(code_gs', config.function,
                                                   config.html_var)} :
             /\ again.region = <<r.region[1], r.region[1] + Len(content) + 4>>
             /\ Slice(code_gs', again.region[1], again.region[2])
                   = <<NL>> \o content \o <<NL, " ", " ">>
             /\ update_code_gs(code_gs', content, config, dry_run, writable).code
                   = code_gs']_vars

====
